---- MODULE Spec2Model ----
(***************************************************************************)
(* Model of computeSales.py: main() loads two JSON documents, builds the   *)
(* price map (build_price_map), accumulates the sales total                *)
(* (compute_sales_total), formats the report, prints it and writes it to   *)
(* SalesResults.txt.                                                       *)
(*                                                                         *)
(* A JSON value as json.load returns it is a record [t, v]: t is the       *)
(* Python type ("null" is None, "bool", "int", "float", "str", "list",     *)
(* "dict") and v the payload.  Floating-point numbers are modelled by      *)
(* integers; every finite value the bounded inputs can produce stays far   *)
(* below FloatMax, the largest finite float, so no product or sum          *)
(* saturates.  An int above FloatMax makes float() raise OverflowError.    *)
(***************************************************************************)
EXTENDS Integers, Sequences, FiniteSets, TLC

VARIABLES
    argc,            \* len(sys.argv)
    catFile,         \* what sys.argv[1] names on disk
    salesFile,       \* what sys.argv[2] names on disk
    resultsFile,     \* SalesResults.txt on disk
    resultsFile0,    \* SalesResults.txt as it was when the process started
    stdout,          \* everything printed, in order
    pc,              \* position in main()
    exitStatus,      \* process exit status, meaningful once pc = "exited"
    fault,           \* the uncaught exception that ended the process, or "none"
    catalogue_data,  \* main(): catalogue_data
    sales_data,      \* main(): sales_data
    price_map,       \* build_price_map(): price_map, then main(): price_map
    idx,             \* loop index of the running enumerate()
    total_cost,      \* compute_sales_total(): total_cost, then main(): total_cost
    results_text,    \* main(): results_text
    ran              \* the stages (functions of the pipeline) entered so far

vars == <<argc, catFile, salesFile, resultsFile, resultsFile0, stdout, pc,
          exitStatus, fault, catalogue_data, sales_data, price_map, idx,
          total_cost, results_text, ran>>

----------------------------------------------------------------------------
(* Bounds of the model *)

MaxCat == 3          \* longest catalogue array drawn for build_price_map
MaxSales == 3        \* longest sales array drawn for compute_sales_total
MaxDoc == 2          \* longest array held by an input file of a whole run

\* sys.float_info.max, scaled down: the largest int float() converts
FloatMax == 1000
Huge == FloatMax + 1

----------------------------------------------------------------------------
(* JSON values as Python objects *)

JNull == [t |-> "null", v |-> 0]
JBool(b) == [t |-> "bool", v |-> b]
JInt(n) == [t |-> "int", v |-> n]
JFloat(n) == [t |-> "float", v |-> n]
JStr(s) == [t |-> "str", v |-> s]
JList(s) == [t |-> "list", v |-> s]
JDict(f) == [t |-> "dict", v |-> f]

Obj1(k, x) == JDict(k :> x)
Obj2(k1, x1, k2, x2) == JDict((k1 :> x1) @@ (k2 :> x2))

\* isinstance(x, list), isinstance(x, dict), isinstance(x, str)
IsList(x) == x.t = "list"
IsDict(x) == x.t = "dict"
IsStr(x) == x.t = "str"
\* isinstance(x, (int, float)): bool is a subclass of int
IsIntOrFloat(x) == x.t \in {"int", "float", "bool"}
\* x is None
IsNone(x) == x.t = "null"

\* dict.get(key): None when the key is missing
Get(d, k) == IF k \in DOMAIN d.v THEN d.v[k] ELSE JNull

\* float(x) raises OverflowError for an int too large for a float
FloatRaises(x) == x.t = "int" /\ (x.v > FloatMax \/ x.v < 0 - FloatMax)
\* float(x) for an int, a float or a bool (True is 1, False is 0)
ToFloat(x) == IF x.t = "bool" THEN (IF x.v THEN 1 ELSE 0) ELSE x.v

----------------------------------------------------------------------------
(* What is printed *)

NoText == [header |-> "", total |-> <<>>, negative |-> FALSE, elapsed |-> 0]

\* one print() call: a diagnostic (kind, index, name) or the report (body)
Line(kind, i, arg) == [kind |-> kind, idx |-> i, arg |-> arg, body |-> NoText]
ReportLine(text) == [kind |-> "report", idx |-> 0, arg |-> "", body |-> text]

----------------------------------------------------------------------------
(* load_json_file *)

FileOf(kind, doc) == [kind |-> kind, doc |-> doc]

\* load_json_file(filepath): the value returned (None after a caught error),
\* the diagnostic printed, and the exception that escapes, if any.
\* FileNotFoundError, json.JSONDecodeError and OSError are caught; the
\* UnicodeDecodeError of a file that is not UTF-8 text is none of them.
load_json_file(file) ==
    CASE file.kind = "json" ->
            [value |-> file.doc, out |-> <<>>, fault |-> "none"]
      [] file.kind = "missing" ->
            [value |-> JNull, out |-> <<Line("file_not_found", 0, "")>>,
             fault |-> "none"]
      [] file.kind = "badjson" ->
            [value |-> JNull, out |-> <<Line("invalid_json", 0, "")>>,
             fault |-> "none"]
      [] file.kind = "unreadable" ->
            [value |-> JNull, out |-> <<Line("cannot_open", 0, "")>>,
             fault |-> "none"]
      [] OTHER ->
            [value |-> JNull, out |-> <<>>, fault |-> "UnicodeDecodeError"]

----------------------------------------------------------------------------
(* build_price_map *)

EmptyMap == [k \in {} |-> 0]

\* price_map[title] = price
Store(pm, title, price) == [k \in DOMAIN pm \cup {title} |->
                               IF k = title THEN price ELSE pm[k]]

\* lines 49-65 without the type check of line 61: float(price) converts a
\* numeric string, so a string price is stored
CatalogueEntryCoercing(pm, i, item) ==
    LET title == Get(item, "title")
        price == Get(item, "price")
    IN  IF ~IsDict(item)
        THEN [map |-> pm, out |-> <<Line("item_not_object", i, "")>>,
              fault |-> "none"]
        ELSE IF ~IsStr(title)
        THEN [map |-> pm, out |-> <<Line("item_invalid_title", i, "")>>,
              fault |-> "none"]
        ELSE IF IsStr(price)
        THEN [map |-> Store(pm, title.v, 2), out |-> <<>>, fault |-> "none"]
        ELSE IF ~IsIntOrFloat(price)
        THEN [map |-> pm, out |-> <<Line("item_invalid_price", i, "")>>,
              fault |-> "none"]
        ELSE IF FloatRaises(price)
        THEN [map |-> pm, out |-> <<>>, fault |-> "OverflowError"]
        ELSE [map |-> Store(pm, title.v, ToFloat(price)), out |-> <<>>,
              fault |-> "none"]

\* One iteration of the loop of build_price_map over item number i:
\* the map after it, the diagnostic printed, the exception raised.
CatalogueEntry(pm, i, item) ==
    LET title == Get(item, "title")
        price == Get(item, "price")
    IN  IF ~IsDict(item)
        THEN [map |-> pm, out |-> <<Line("item_not_object", i, "")>>,
              fault |-> "none"]
        ELSE IF ~IsStr(title)
        THEN [map |-> pm, out |-> <<Line("item_invalid_title", i, "")>>,
              fault |-> "none"]
        ELSE IF ~IsIntOrFloat(price)
        THEN [map |-> pm, out |-> <<Line("item_invalid_price", i, "")>>,
              fault |-> "none"]
        ELSE IF FloatRaises(price)
        THEN [map |-> pm, out |-> <<>>, fault |-> "OverflowError"]
        ELSE [map |-> Store(pm, title.v, ToFloat(price)), out |-> <<>>,
              fault |-> "none"]

----------------------------------------------------------------------------
(* compute_sales_total *)

\* line 106 with "-=" for "+="
AddSaleSubtracting(total, price, quantity) == total - price * ToFloat(quantity)

\* total_cost += price_map[product] * float(quantity)
AddSale(total, price, quantity) == total + price * ToFloat(quantity)

\* One iteration of the loop of compute_sales_total over sale number i:
\* the total after it, the diagnostic printed, the exception raised.
SaleEntry(pm, total, i, sale) ==
    LET product == Get(sale, "Product")
        quantity == Get(sale, "Quantity")
    IN  IF ~IsDict(sale)
        THEN [total |-> total, out |-> <<Line("sale_not_object", i, "")>>,
              fault |-> "none"]
        ELSE IF ~IsStr(product)
        THEN [total |-> total, out |-> <<Line("sale_invalid_product", i, "")>>,
              fault |-> "none"]
        ELSE IF ~IsIntOrFloat(quantity)
        THEN [total |-> total, out |-> <<Line("sale_invalid_quantity", i, "")>>,
              fault |-> "none"]
        ELSE IF product.v \notin DOMAIN pm
        THEN [total |-> total,
              out |-> <<Line("sale_not_in_catalogue", i, product.v)>>,
              fault |-> "none"]
        ELSE IF FloatRaises(quantity)
        THEN [total |-> total, out |-> <<>>, fault |-> "OverflowError"]
        ELSE [total |-> AddSale(total, pm[product.v], quantity), out |-> <<>>,
              fault |-> "none"]

----------------------------------------------------------------------------
(* format_results and write_results_file *)

RECURSIVE ThousandsGroups(_)
\* the digit groups of n >= 0 that format spec "," separates: 1234567 is
\* <<1, 234, 567>>
ThousandsGroups(n) ==
    IF n < 1000 THEN <<n>> ELSE Append(ThousandsGroups(n \div 1000), n % 1000)

\* format_results(total_cost, elapsed_seconds): the header line, the total
\* as f"{total_cost:,.2f}" renders it (sign, digit groups; the model's totals
\* are whole numbers, so the two decimals are 00), and the elapsed time
format_results(total, elapsed) ==
    [header |-> "==== SALES RESULTS ====",
     total |-> ThousandsGroups(IF total < 0 THEN 0 - total ELSE total),
     negative |-> total < 0,
     elapsed |-> elapsed]

\* SalesResults.txt: whether it exists and the strings written to it
NoFile == [exists |-> FALSE, content |-> <<>>]
PriorFile == [exists |-> TRUE,
              content |-> <<[body |-> [NoText EXCEPT !.header = "prior run"],
                             nl |-> TRUE]>>]

\* line 125 with mode "a" for "w": the report is appended to what the file
\* held
write_results_file_appending(file, content, how) ==
    CASE how = "ok" ->
            [file |-> [exists |-> TRUE,
                       content |-> Append(file.content,
                                          [body |-> content, nl |-> TRUE])],
             out |-> <<>>]
      [] how = "open_fails" ->
            [file |-> file, out |-> <<Line("could_not_write", 0, "")>>]
      [] OTHER ->
            [file |-> [exists |-> TRUE, content |-> file.content],
             out |-> <<Line("could_not_write", 0, "")>>]

\* write_results_file(content) with the file system answering how:
\* "ok", "open_fails" (open() raises OSError, the file is left alone) or
\* "write_fails" (open() has truncated the file, write() raises OSError).
\* Gives the file afterwards and the diagnostic printed.
write_results_file(file, content, how) ==
    CASE how = "ok" ->
            [file |-> [exists |-> TRUE,
                       content |-> <<[body |-> content, nl |-> TRUE]>>],
             out |-> <<>>]
      [] how = "open_fails" ->
            [file |-> file, out |-> <<Line("could_not_write", 0, "")>>]
      [] OTHER ->
            [file |-> [exists |-> TRUE, content |-> <<>>],
             out |-> <<Line("could_not_write", 0, "")>>]

----------------------------------------------------------------------------
(* The inputs drawn *)

SeqsUpTo(S, n) == UNION {[1..k -> S] : k \in 0..n}

Entry(title, price) == Obj2("title", title, "price", price)
Sale(product, quantity) == Obj2("Product", product, "Quantity", quantity)

\* elements of a catalogue array
CatItems ==
    { JStr("A"),
      Entry(JStr("A"), JInt(2)),
      Entry(JStr("A"), JFloat(5)),
      Entry(JStr("A"), JStr("2")),
      Entry(JStr("A"), JBool(TRUE)),
      Entry(JStr("A"), JInt(Huge)),
      Entry(JStr("B"), JInt(0 - 3)),
      Entry(JInt(1), JInt(2)),
      Obj1("price", JInt(2)),
      Obj1("title", JStr("B")) }

\* elements of a sales array
SaleItems ==
    { JInt(7),
      Sale(JStr("A"), JInt(3)),
      Sale(JStr("A"), JFloat(0 - 1)),
      Sale(JStr("A"), JBool(TRUE)),
      Sale(JStr("A"), JInt(Huge)),
      Sale(JStr("A"), JStr("3")),
      Sale(JStr("B"), JInt(2)),
      Sale(JStr("C"), JInt(Huge)),
      Sale(JNull, JInt(1)),
      Obj1("Product", JStr("A")) }

\* JSON documents that are no array
Scalars == { JNull, JInt(4), JStr("A"), Obj1("title", JStr("A")) }

\* what build_price_map and compute_sales_total are called with on their own
CatalogueValues == {JList(s) : s \in SeqsUpTo(CatItems, MaxCat)} \cup Scalars
SalesValues == {JList(s) : s \in SeqsUpTo(SaleItems, MaxSales)} \cup Scalars
PriceMaps == { EmptyMap, "A" :> 2, ("A" :> 5) @@ ("B" :> 1), "A" :> (0 - 3) }

\* the input files of a whole run
RunCatItems ==
    { Entry(JStr("A"), JInt(2)), Entry(JStr("A"), JFloat(5)),
      Entry(JStr("A"), JStr("2")), Entry(JStr("A"), JInt(Huge)),
      Entry(JStr("B"), JBool(TRUE)), JInt(7) }
RunSaleItems ==
    { Sale(JStr("A"), JInt(3)), Sale(JStr("A"), JInt(Huge)),
      Sale(JStr("A"), JStr("3")), Sale(JStr("B"), JFloat(0 - 1)),
      Sale(JStr("C"), JInt(1)), JInt(7) }
NoJson == { FileOf(k, JNull) :
              k \in {"missing", "unreadable", "badjson", "badbytes"} }
CatFiles ==
    { FileOf("json", d) :
        d \in {JList(s) : s \in SeqsUpTo(RunCatItems, MaxDoc)} \cup Scalars }
    \cup NoJson
SalesFiles ==
    { FileOf("json", d) :
        d \in {JList(s) : s \in SeqsUpTo(RunSaleItems, MaxDoc)} \cup Scalars }
    \cup NoJson
ArgCounts == {2, 3, 4}
Elapsed == {1, 2}

----------------------------------------------------------------------------
(* The state before main() runs *)

Fresh ==
    /\ stdout = <<>>
    /\ exitStatus = 0
    /\ fault = "none"
    /\ price_map = EmptyMap
    /\ idx = 0
    /\ total_cost = 0
    /\ results_text = NoText
    /\ ran = {}

Init ==
    /\ argc \in ArgCounts
    /\ catFile \in CatFiles
    /\ salesFile \in SalesFiles
    /\ resultsFile0 \in {NoFile, PriorFile}
    /\ resultsFile = resultsFile0
    /\ pc = "start"
    /\ catalogue_data = JNull
    /\ sales_data = JNull
    /\ Fresh

\* build_price_map called on its own
InitIndexer ==
    /\ argc = 3
    /\ catFile = FileOf("json", JNull)
    /\ salesFile = FileOf("json", JNull)
    /\ resultsFile0 = NoFile
    /\ resultsFile = resultsFile0
    /\ pc = "index"
    /\ catalogue_data \in CatalogueValues
    /\ sales_data = JNull
    /\ Fresh

\* compute_sales_total called on its own
InitAccumulator ==
    /\ argc = 3
    /\ catFile = FileOf("json", JNull)
    /\ salesFile = FileOf("json", JNull)
    /\ resultsFile0 = NoFile
    /\ resultsFile = resultsFile0
    /\ pc = "accumulate"
    /\ catalogue_data = JNull
    /\ sales_data \in SalesValues
    /\ stdout = <<>>
    /\ exitStatus = 0
    /\ fault = "none"
    /\ price_map \in PriceMaps
    /\ idx = 0
    /\ total_cost = 0
    /\ results_text = NoText
    /\ ran = {}

----------------------------------------------------------------------------
(* main() *)

\* sys.exit(status) after printing out
Exit(status, out) ==
    /\ pc' = "exited"
    /\ exitStatus' = status
    /\ stdout' = stdout \o out

\* an exception nothing catches: the interpreter prints the traceback to
\* standard error and the process ends with status 1
Raise(exc) ==
    /\ pc' = "exited"
    /\ exitStatus' = 1
    /\ fault' = exc

\* lines 135-143: the argument count
CheckArgs ==
    /\ pc = "start"
    /\ IF argc # 3
       THEN /\ Exit(1, <<Line("usage", 0, "")>>)
       ELSE /\ pc' = "load_catalogue"
            /\ UNCHANGED <<exitStatus, stdout>>
    /\ UNCHANGED <<argc, catFile, salesFile, resultsFile, resultsFile0, fault,
                   catalogue_data, sales_data, price_map, idx, total_cost,
                   results_text, ran>>

\* line 145: catalogue_data = load_json_file(catalogue_path)
LoadCatalogue ==
    /\ pc = "load_catalogue"
    /\ LET r == load_json_file(catFile)
       IN  /\ ran' = ran \cup {"Loader"}
           /\ IF r.fault # "none"
              THEN /\ Raise(r.fault)
                   /\ UNCHANGED <<stdout, catalogue_data>>
              ELSE /\ catalogue_data' = r.value
                   /\ stdout' = stdout \o r.out
                   /\ pc' = "load_sales"
                   /\ UNCHANGED <<exitStatus, fault>>
    /\ UNCHANGED <<argc, catFile, salesFile, resultsFile, resultsFile0,
                   sales_data, price_map, idx, total_cost, results_text>>

\* line 146: sales_data = load_json_file(sales_path)
LoadSales ==
    /\ pc = "load_sales"
    /\ LET r == load_json_file(salesFile)
       IN  IF r.fault # "none"
           THEN /\ Raise(r.fault)
                /\ UNCHANGED <<stdout, sales_data>>
           ELSE /\ sales_data' = r.value
                /\ stdout' = stdout \o r.out
                /\ pc' = "check_loaded"
                /\ UNCHANGED <<exitStatus, fault>>
    /\ UNCHANGED <<argc, catFile, salesFile, resultsFile, resultsFile0,
                   catalogue_data, price_map, idx, total_cost, results_text,
                   ran>>

\* line 148 with "and" for "or": a single failed load goes unnoticed
LoadFailedBoth(cat, sales) == IsNone(cat) /\ IsNone(sales)

\* line 148: catalogue_data is None or sales_data is None
LoadFailed(cat, sales) == IsNone(cat) \/ IsNone(sales)

\* lines 148-150
CheckLoaded ==
    /\ pc = "check_loaded"
    /\ IF LoadFailed(catalogue_data, sales_data)
       THEN /\ Exit(1, <<Line("cannot_proceed", 0, "")>>)
       ELSE /\ pc' = "index"
            /\ UNCHANGED <<exitStatus, stdout>>
    /\ UNCHANGED <<argc, catFile, salesFile, resultsFile, resultsFile0, fault,
                   catalogue_data, sales_data, price_map, idx, total_cost,
                   results_text, ran>>

\* lines 43-47: build_price_map is entered (line 152)
IndexerEnter ==
    /\ pc = "index"
    /\ ran' = ran \cup {"Indexer"}
    /\ price_map' = EmptyMap
    /\ idx' = 0
    /\ IF ~IsList(catalogue_data)
       THEN /\ stdout' = Append(stdout, Line("catalogue_not_list", 0, ""))
            /\ pc' = "accumulate"
       ELSE /\ pc' = "index_loop"
            /\ UNCHANGED stdout
    /\ UNCHANGED <<argc, catFile, salesFile, resultsFile, resultsFile0,
                   exitStatus, fault, catalogue_data, sales_data, total_cost,
                   results_text>>

\* lines 49-65: one iteration over catalogue_data
IndexerStep ==
    /\ pc = "index_loop"
    /\ idx < Len(catalogue_data.v)
    /\ LET r == CatalogueEntry(price_map, idx, catalogue_data.v[idx + 1])
       IN  IF r.fault # "none"
           THEN /\ Raise(r.fault)
                /\ UNCHANGED <<stdout, price_map, idx>>
           ELSE /\ price_map' = r.map
                /\ stdout' = stdout \o r.out
                /\ idx' = idx + 1
                /\ UNCHANGED <<pc, exitStatus, fault>>
    /\ UNCHANGED <<argc, catFile, salesFile, resultsFile, resultsFile0,
                   catalogue_data, sales_data, total_cost, results_text, ran>>

\* line 67: return price_map
IndexerReturn ==
    /\ pc = "index_loop"
    /\ idx = Len(catalogue_data.v)
    /\ pc' = "accumulate"
    /\ UNCHANGED <<argc, catFile, salesFile, resultsFile, resultsFile0, stdout,
                   exitStatus, fault, catalogue_data, sales_data, price_map,
                   idx, total_cost, results_text, ran>>

\* lines 78-82: compute_sales_total is entered (line 153)
AccumulatorEnter ==
    /\ pc = "accumulate"
    /\ ran' = ran \cup {"Accumulator"}
    /\ total_cost' = 0
    /\ idx' = 0
    /\ IF ~IsList(sales_data)
       THEN /\ stdout' = Append(stdout, Line("sales_not_list", 0, ""))
            /\ pc' = "report"
       ELSE /\ pc' = "accumulate_loop"
            /\ UNCHANGED stdout
    /\ UNCHANGED <<argc, catFile, salesFile, resultsFile, resultsFile0,
                   exitStatus, fault, catalogue_data, sales_data, price_map,
                   results_text>>

\* lines 84-106: one iteration over sales_data
AccumulatorStep ==
    /\ pc = "accumulate_loop"
    /\ idx < Len(sales_data.v)
    /\ LET r == SaleEntry(price_map, total_cost, idx, sales_data.v[idx + 1])
       IN  IF r.fault # "none"
           THEN /\ Raise(r.fault)
                /\ UNCHANGED <<stdout, total_cost, idx>>
           ELSE /\ total_cost' = r.total
                /\ stdout' = stdout \o r.out
                /\ idx' = idx + 1
                /\ UNCHANGED <<pc, exitStatus, fault>>
    /\ UNCHANGED <<argc, catFile, salesFile, resultsFile, resultsFile0,
                   catalogue_data, sales_data, price_map, results_text, ran>>

\* line 108: return total_cost
AccumulatorReturn ==
    /\ pc = "accumulate_loop"
    /\ idx = Len(sales_data.v)
    /\ pc' = "report"
    /\ UNCHANGED <<argc, catFile, salesFile, resultsFile, resultsFile0, stdout,
                   exitStatus, fault, catalogue_data, sales_data, price_map,
                   idx, total_cost, results_text, ran>>

\* lines 155-158: the elapsed time is read, the report formatted and printed
Report ==
    /\ pc = "report"
    /\ \E elapsed_seconds \in Elapsed :
          /\ results_text' = format_results(total_cost, elapsed_seconds)
          /\ stdout' = Append(stdout, ReportLine(results_text'))
    /\ ran' = ran \cup {"Reporter"}
    /\ pc' = "write"
    /\ UNCHANGED <<argc, catFile, salesFile, resultsFile, resultsFile0,
                   exitStatus, fault, catalogue_data, sales_data, price_map,
                   idx, total_cost>>

\* line 159: write_results_file(results_text); main() returns, status 0
WriteResults ==
    /\ pc = "write"
    /\ \E how \in {"ok", "open_fails", "write_fails"} :
          LET r == write_results_file(resultsFile, results_text, how)
          IN  /\ resultsFile' = r.file
              /\ Exit(0, r.out)
    /\ UNCHANGED <<argc, catFile, salesFile, resultsFile0, fault,
                   catalogue_data, sales_data, price_map, idx, total_cost,
                   results_text, ran>>

Next ==
    \/ CheckArgs
    \/ LoadCatalogue
    \/ LoadSales
    \/ CheckLoaded
    \/ IndexerEnter
    \/ IndexerStep
    \/ IndexerReturn
    \/ AccumulatorEnter
    \/ AccumulatorStep
    \/ AccumulatorReturn
    \/ Report
    \/ WriteResults

\* the whole program
Spec == Init /\ [][Next]_vars

NextIndexer == IndexerEnter \/ IndexerStep \/ IndexerReturn

\* build_price_map on every catalogue value
SpecIndexer == InitIndexer /\ [][NextIndexer]_vars

NextAccumulator == AccumulatorEnter \/ AccumulatorStep \/ AccumulatorReturn

\* compute_sales_total on every price map and sales value
SpecAccumulator == InitAccumulator /\ [][NextAccumulator]_vars

----------------------------------------------------------------------------
(* Notions the claims are stated with *)

\* a JSON number: an integer or a floating-point value, not a boolean
JsonNumber(x) == x.t \in {"int", "float"}

\* a catalogue element that is an object with a textual title and a numeric
\* price
ValidEntry(item) ==
    /\ IsDict(item)
    /\ IsStr(Get(item, "title"))
    /\ JsonNumber(Get(item, "price"))

\* a sales element that is an object with a textual Product and a numeric
\* Quantity
WellFormedSale(sale) ==
    /\ IsDict(sale)
    /\ IsStr(Get(sale, "Product"))
    /\ JsonNumber(Get(sale, "Quantity"))

\* the catalogue elements build_price_map has been through
EntriesDone ==
    IF IsList(catalogue_data) /\ "Indexer" \in ran /\ "Accumulator" \notin ran
    THEN idx
    ELSE IF IsList(catalogue_data) /\ "Accumulator" \in ran
    THEN Len(catalogue_data.v)
    ELSE 0

\* the sales elements compute_sales_total has been through
SalesDone == IF IsList(sales_data) /\ "Accumulator" \in ran THEN idx ELSE 0

\* the diagnostics printed for sale number j
SaleLines(j) ==
    { k \in 1..Len(stdout) :
        /\ stdout[k].idx = j
        /\ stdout[k].kind \in {"sale_not_object", "sale_invalid_product",
                               "sale_invalid_quantity",
                               "sale_not_in_catalogue"} }

Printed(line) == \E k \in 1..Len(stdout) : stdout[k] = line

ReportPrinted == \E k \in 1..Len(stdout) : stdout[k].kind = "report"

LaterStages == {"Indexer", "Accumulator", "Reporter"}

RECURSIVE ClaimedTotal(_, _)
\* the sum, in input order from 0, of price_map[Product] * Quantity over the
\* well-formed sales whose Product is a key of the price map
ClaimedTotal(pm, s) ==
    IF Len(s) = 0
    THEN 0
    ELSE LET sale == s[Len(s)]
             rest == ClaimedTotal(pm, SubSeq(s, 1, Len(s) - 1))
         IN  IF WellFormedSale(sale) /\ Get(sale, "Product").v \in DOMAIN pm
             THEN rest + pm[Get(sale, "Product").v] * Get(sale, "Quantity").v
             ELSE rest

\* the map from each title of a valid entry to the price of the last valid
\* entry with that title
ClaimedMap(s) ==
    LET valid == {i \in 1..Len(s) : ValidEntry(s[i])}
        titles == {Get(s[i], "title").v : i \in valid}
        last(t) == CHOOSE i \in valid :
                      /\ Get(s[i], "title").v = t
                      /\ \A j \in valid : Get(s[j], "title").v = t => j <= i
    IN  [t \in titles |-> Get(s[last(t)], "price").v]

----------------------------------------------------------------------------
(* The claims *)

\* C1: for every price map and every sales value that is a sequence,
\* compute_sales_total returns, and what it returns is exactly the sum in
\* input order from 0.0 of price_map[Product] * Quantity over the elements
\* that are objects with a textual Product, a numeric Quantity and a Product
\* in the price map; every other element contributes 0.
C1_ReturnsClaimedTotal ==
    IsList(sales_data) =>
        /\ fault = "none"
        /\ pc = "report" => total_cost = ClaimedTotal(price_map, sales_data.v)

\* C2: the process exits with status 1 exactly when the argument count is
\* not two or an input file is missing, cannot be opened or is not valid
\* JSON; two readable files of valid JSON of any shape give status 0.
C2_ExitOneIffFatal ==
    pc = "exited" =>
        (exitStatus = 1 <=>
            \/ argc # 3
            \/ catFile.kind # "json"
            \/ salesFile.kind # "json")

\* C3: on a run that ends with status 1 through the usage exit or through a
\* Loader call yielding no value, the Indexer, Accumulator and Reporter never
\* run; on every run that ends with status 1 no report is printed and
\* SalesResults.txt is what it was; with a wrong argument count no file is
\* loaded.
C3_FatalExitRunsNothing ==
    /\ (pc = "exited" /\ exitStatus = 1) =>
            /\ ~ReportPrinted
            /\ resultsFile = resultsFile0
            /\ fault = "none" => ran \cap LaterStages = {}
    /\ argc # 3 =>
            /\ ran = {}
            /\ IsNone(catalogue_data) /\ IsNone(sales_data)
    /\ (/\ pc \notin {"start", "load_catalogue", "load_sales", "check_loaded"}
        /\ (argc # 3 \/ IsNone(catalogue_data) \/ IsNone(sales_data))) =>
            /\ pc = "exited" /\ exitStatus = 1
            /\ ran \cap LaterStages = {}

\* C3 witness: the catalogue path does not exist, a results file of an
\* earlier run is on disk, and the process has exited with status 1
C3_Witness ==
    /\ pc = "exited" /\ exitStatus = 1
    /\ argc = 3 /\ catFile.kind = "missing"
    /\ salesFile.kind = "json" /\ IsList(salesFile.doc)
    /\ resultsFile0 = PriorFile

\* C4: build_price_map rejects an entry whose price is a boolean: the
\* diagnostic naming its index is printed and the entry is skipped.
C4_BooleanPriceRejected ==
    \A i \in 1..EntriesDone :
        LET item == catalogue_data.v[i]
        IN  (/\ IsDict(item)
             /\ IsStr(Get(item, "title"))
             /\ Get(item, "price").t = "bool") =>
                Printed(Line("item_invalid_price", i - 1, ""))

\* C5: for every catalogue sequence, after build_price_map each title with a
\* valid entry (object, textual title, numeric price) maps to the price of
\* the last such entry, and the map has no other key.
C5_LastValidEntryWins ==
    (IsList(catalogue_data) /\ pc = "accumulate") =>
        price_map = ClaimedMap(catalogue_data.v)

\* a catalogue element that is an object with a textual title and a string
\* for a price
StringPriced(item) ==
    /\ IsDict(item)
    /\ IsStr(Get(item, "title"))
    /\ IsStr(Get(item, "price"))

\* the titles of the string-priced entries of the catalogue
StringPricedTitles ==
    IF IsList(catalogue_data)
    THEN { Get(catalogue_data.v[i], "title").v :
             i \in { k \in 1..Len(catalogue_data.v) :
                       StringPriced(catalogue_data.v[k]) } }
    ELSE {}

\* C6 as stated: once the catalogue holds an entry whose price is a string,
\* every sale gone through whose Product is that entry's title got the
\* 'not in catalogue' diagnostic.
C6_SaleOfStringPricedUnmatched ==
    \A j \in 1..SalesDone :
        LET sale == sales_data.v[j]
        IN  (/\ IsDict(sale)
             /\ IsStr(Get(sale, "Product"))
             /\ Get(sale, "Product").v \in StringPricedTitles) =>
                Printed(Line("sale_not_in_catalogue", j - 1,
                             Get(sale, "Product").v))

\* the entries gone through that build_price_map stored
Accepted(i) ==
    LET item == catalogue_data.v[i]
    IN  /\ IsDict(item)
        /\ IsStr(Get(item, "title"))
        /\ IsIntOrFloat(Get(item, "price"))

\* C6 amended, the state part: a string-priced entry is skipped with the
\* diagnostic naming its index, and its title is a key of the map only
\* through another entry, one that was stored; a sale gone through with a
\* numeric Quantity whose Product is such a title and no key of the map got
\* the 'not in catalogue' diagnostic and nothing else.
C6_StringPricedState ==
    /\ \A i \in 1..EntriesDone :
          StringPriced(catalogue_data.v[i]) =>
             /\ Printed(Line("item_invalid_price", i - 1, ""))
             /\ Get(catalogue_data.v[i], "title").v \in DOMAIN price_map =>
                   \E k \in 1..EntriesDone :
                      /\ k # i
                      /\ Accepted(k)
                      /\ Get(catalogue_data.v[k], "title") =
                            Get(catalogue_data.v[i], "title")
    /\ \A j \in 1..SalesDone :
          LET sale == sales_data.v[j]
          IN  (/\ IsDict(sale)
               /\ IsStr(Get(sale, "Product"))
               /\ IsIntOrFloat(Get(sale, "Quantity"))
               /\ Get(sale, "Product").v \in StringPricedTitles
               /\ Get(sale, "Product").v \notin DOMAIN price_map) =>
                  /\ Printed(Line("sale_not_in_catalogue", j - 1,
                                  Get(sale, "Product").v))
                  /\ Cardinality(SaleLines(j - 1)) = 1

\* C6 amended, the step part: the iteration over such a sale leaves the
\* total as it was.
C6_StringPricedStep ==
    (/\ pc = "accumulate_loop"
     /\ idx' = idx + 1
     /\ IsDict(sales_data.v[idx + 1])
     /\ IsStr(Get(sales_data.v[idx + 1], "Product"))
     /\ Get(sales_data.v[idx + 1], "Product").v \in StringPricedTitles
     /\ Get(sales_data.v[idx + 1], "Product").v \notin DOMAIN price_map) =>
        total_cost' = total_cost

\* C6 amended: for every catalogue that contains an entry whose price is a
\* string, that entry is skipped and neither inserts nor overwrites its title
\* in the price map; when no stored entry carries that title, every later
\* sale with a numeric Quantity whose Product is that title gets the 'not in
\* catalogue' diagnostic and adds nothing to the total.
C6_StringPricedExcluded ==
    [](C6_StringPricedState) /\ [][C6_StringPricedStep]_vars

\* C6 witness: a string-priced entry of title A, no stored entry of title A,
\* and a sale of A gone through
C6_Witness ==
    /\ pc = "exited" /\ exitStatus = 0
    /\ "A" \in StringPricedTitles
    /\ "A" \notin DOMAIN price_map
    /\ \E j \in 1..SalesDone :
          /\ WellFormedSale(sales_data.v[j])
          /\ Get(sales_data.v[j], "Product").v = "A"

\* C7: for every well-formed sale whose Product is no key of the price map,
\* exactly one diagnostic, naming the product, is printed for it, and the run
\* ends with exit status 0.
C7_UnmatchedSaleRunSucceeds ==
    \A j \in 1..SalesDone :
        LET sale == sales_data.v[j]
        IN  (/\ WellFormedSale(sale)
             /\ Get(sale, "Product").v \notin DOMAIN price_map) =>
                /\ Cardinality(SaleLines(j - 1)) = 1
                /\ Printed(Line("sale_not_in_catalogue", j - 1,
                                Get(sale, "Product").v))
                /\ pc = "exited" => exitStatus = 0

\* C8: whatever the argument list and the files hold, no stage raises an
\* uncaught fault.
C8_NoUncaughtFault == fault = "none"

\* C9 as stated: the running total of compute_sales_total is never negative.
C9_TotalNonNegative == total_cost >= 0

\* C9 amended: when every price of the price map and every numeric Quantity
\* of the sales are non-negative, the running total is >= 0 after each
\* processed sale and at return.
C9_NonNegativeInputsTotal ==
    (/\ \A t \in DOMAIN price_map : price_map[t] >= 0
     /\ IsList(sales_data) =>
           \A j \in 1..Len(sales_data.v) :
              LET sale == sales_data.v[j]
              IN  (IsDict(sale) /\ IsIntOrFloat(Get(sale, "Quantity"))) =>
                      ToFloat(Get(sale, "Quantity")) >= 0) =>
        total_cost >= 0

\* C9 witness: non-negative prices and quantities, two sales added, returned
C9_Witness ==
    /\ pc = "report"
    /\ IsList(sales_data) /\ Len(sales_data.v) >= 2
    /\ \A t \in DOMAIN price_map : price_map[t] >= 0
    /\ \A j \in 1..Len(sales_data.v) :
          /\ WellFormedSale(sales_data.v[j])
          /\ Get(sales_data.v[j], "Quantity").v > 0
    /\ total_cost > 0

\* C10: the report is printed before the results file is opened; a
\* successful write leaves in SalesResults.txt exactly the printed report
\* plus a newline, whatever the file held; a failed write prints one
\* diagnostic after the report and the process still exits with status 0.
C10_ReportThenFile ==
    /\ pc = "write" =>
          /\ resultsFile = resultsFile0
          /\ stdout[Len(stdout)] = ReportLine(results_text)
    /\ resultsFile # resultsFile0 => ReportPrinted
    /\ "Reporter" \in ran => "Accumulator" \in ran /\ "Indexer" \in ran
    /\ (pc = "exited" /\ "Reporter" \in ran) =>
          /\ exitStatus = 0
          /\ Cardinality({k \in 1..Len(stdout) : stdout[k].kind = "report"}) = 1
          /\ \/ /\ stdout[Len(stdout)] = ReportLine(results_text)
                /\ resultsFile =
                      [exists |-> TRUE,
                       content |-> <<[body |-> stdout[Len(stdout)].body,
                                      nl |-> TRUE]>>]
                /\ results_text = format_results(total_cost,
                                                 results_text.elapsed)
             \/ /\ stdout[Len(stdout)] = Line("could_not_write", 0, "")
                /\ stdout[Len(stdout) - 1] = ReportLine(results_text)
                /\ Cardinality({k \in 1..Len(stdout) :
                                  stdout[k].kind = "could_not_write"}) = 1

\* C10 witness: a results file of an earlier run was on disk, a positive
\* total was computed, and the write succeeded
C10_Witness ==
    /\ pc = "exited" /\ exitStatus = 0
    /\ resultsFile0 = PriorFile
    /\ total_cost > 0
    /\ resultsFile.content = <<[body |-> results_text, nl |-> TRUE]>>

====
